---- MODULE Spec2Model ----
(***************************************************************************)
(* Model of mongoengine/django/forms.py: the translation of document       *)
(* fields to form fields, the collection of a form class's fields, and the *)
(* life of a form instance bound to a document instance.                   *)
(***************************************************************************)
EXTENDS Integers, Sequences, FiniteSets, TLC

\* the call being followed and how far it got
VARIABLES pc
\* Field Translator: the descriptor and widget passed, the form field returned
VARIABLES descriptor, widget_arg, formfield
\* Form Class Builder: the class's Meta options, what its body declares
\* (declared fields, formfield_callback), the result of a direct call of
\* fields_for_doc, and the class created
VARIABLES meta, attrs, collected, new_class
\* Form instance: self (instance, initial, data, _errors, cleaned_data), the
\* values the bound document instance had when the form was constructed, the
\* last call made on the form and its outcome, and the number of calls of the
\* document's own save(), and the arguments the form was constructed with
VARIABLES self, original, last, saves, constructed

vars == <<pc, descriptor, widget_arg, formfield, meta, attrs, collected, new_class,
          self, original, last, saves, constructed>>
translatorVars == <<descriptor, widget_arg, formfield>>
builderVars == <<meta, attrs, collected, new_class>>
formVars == <<self, original, last, saves, constructed>>

\* ------------------------------------------------------------------ bounds
\* longest include list (Meta.fields) drawn
MaxFields == 2
\* longest exclude list (Meta.exclude) drawn
MaxExclude == 1
\* longest include list drawn for the class of a form instance
MaxFormFields == 1
\* most calls of the document's own save() followed on one form instance
MaxSaves == 1

\* ------------------------------------------------------------- python values
\* Python's None as an attribute value, and as a missing form field
None == "None"
NoField == [type |-> "None", validators |-> <<>>, widget |-> None, required |-> FALSE]

\* an optional list argument: absent (None) or a list
NoList == [given |-> FALSE, list |-> <<>>]
List(s) == [given |-> TRUE, list |-> s]
\* Python truth of an optional list: None and [] are false
Truthy(l) == l.given /\ Len(l.list) > 0
\* name in l
In(n, l) == \E i \in 1..Len(l.list) : l.list[i] = n

Range(s) == {s[i] : i \in 1..Len(s)}
SeqsUpTo(S, n) == UNION {[1..k -> S] : k \in 0..n}

\* ---------------------------------------------------------- SortedDict
\* a SortedDict is a sequence of [k, v] items with distinct keys
Item(key, val) == [k |-> key, v |-> val]
Keys(d) == [i \in 1..Len(d) |-> d[i].k]
KeySet(d) == {d[i].k : i \in 1..Len(d)}
\* d.get(key): the value, or None
Get(d, key) ==
    IF key \in KeySet(d) THEN d[CHOOSE i \in 1..Len(d) : d[i].k = key].v
    ELSE NoField
\* d[key] = val: a present key keeps its place, a new one goes last
SetItem(d, key, val) ==
    IF key \in KeySet(d)
    THEN [i \in 1..Len(d) |-> IF d[i].k = key THEN Item(key, val) ELSE d[i]]
    ELSE Append(d, Item(key, val))
\* d.update(e)
RECURSIVE Update(_, _)
Update(d, e) ==
    IF e = <<>> THEN d ELSE Update(SetItem(d, Head(e).k, Head(e).v), Tail(e))
\* SortedDict(items): keys in the order of their first occurrence
SortedDict(items) == Update(<<>>, items)

\* ------------------------------------------------------- Field Translator
SupportedKinds ==
    {"StringField", "IntField", "FloatField", "BooleanField", "DateTimeField",
     "DecimalField", "URLField", "FileField", "EmailField", "ImageField"}
\* "ListField" stands for the kinds the table does not hold
Kinds == SupportedKinds \cup {"ListField"}

\* a document field descriptor: its class name, whether it declares choices,
\* its validation attribute (None, a callable, or something not callable),
\* whether it has a regex, and required
Descriptors ==
    [kind : Kinds, choices : BOOLEAN, validation : {None, "callable", "notcallable"},
     regex : BOOLEAN, required : BOOLEAN]

FormField(t, vs, w, r) == [type |-> t, validators |-> vs, widget |-> w, required |-> r]

mongofield_to_formfield(mongo_field, widget) ==
    IF mongo_field.choices
    THEN FormField("ChoiceField", <<>>, widget, mongo_field.required)
    ELSE
    LET validators ==
            IF mongo_field.validation # None /\ mongo_field.validation = "callable"
            THEN <<"validation">> ELSE <<>>
    IN  CASE mongo_field.kind = "StringField" ->
               FormField("CharField",
                         IF mongo_field.regex
                         THEN Append(validators, "RegexValidator") ELSE validators,
                         widget, mongo_field.required)
          [] mongo_field.kind = "IntField" ->
               FormField("IntegerField", validators, widget, mongo_field.required)
          [] mongo_field.kind = "FloatField" ->
               FormField("FloatField", validators, widget, mongo_field.required)
          [] mongo_field.kind = "BooleanField" ->
               FormField("BooleanField", <<>>, widget, mongo_field.required)
          [] mongo_field.kind = "DateTimeField" ->
               FormField("DateTimeField", validators, widget, mongo_field.required)
          [] mongo_field.kind = "DecimalField" ->
               FormField("DecimalField", validators, widget, mongo_field.required)
          [] mongo_field.kind = "URLField" ->
               FormField("URLField", validators, widget, mongo_field.required)
          [] mongo_field.kind = "FileField" ->
               FormField("FileField", validators, widget, mongo_field.required)
          [] mongo_field.kind = "EmailField" ->
               FormField("EmailField", validators, widget, mongo_field.required)
          [] mongo_field.kind = "ImageField" ->
               FormField("ImageField", validators, widget, mongo_field.required)
          [] OTHER -> NoField

\* ------------------------------------------------------- Field Collector
\* a document type: doc.order is the order doc._fields.items() yields,
\* doc.fields the descriptor of each name
DocNames(doc) == Range(doc.order)

\* formfield_callback: None, a value that is not callable, or a callable that
\* returns None for the names in nulls and a form field of its own otherwise
NoCallback == [kind |-> None, nulls |-> {}]
CallCallback(cb, name, mongo_field, widget) ==
    IF name \in cb.nulls THEN NoField
    ELSE FormField("Field", <<>>, widget, mongo_field.required)

\* the kwargs of one field: widgets[name] when widgets holds the name
WidgetOf(widgets, name) ==
    IF widgets.given /\ name \in DOMAIN widgets.map THEN widgets.map[name] ELSE None

\* lines 176-179: the fields the loop does not skip
Survives(name, fields, exclude) ==
    /\ ~(fields.given /\ ~In(name, fields))
    /\ ~(Truthy(exclude) /\ In(name, exclude))

\* lines 185-192: the form field of one surviving field
FormFieldOf(doc, name, widgets, formfield_callback) ==
    IF formfield_callback.kind = None
    THEN mongofield_to_formfield(doc.fields[name], WidgetOf(widgets, name))
    ELSE CallCallback(formfield_callback, name, doc.fields[name], WidgetOf(widgets, name))

\* Reordered forgetting the include list's order: the mapping as the loop built it
Reordered_declaration_order(field_dict, fields, exclude, ignored) == field_dict

\* Reordered without the test of the exclude list
Reordered_no_exclude(field_dict, fields, exclude, ignored) ==
    LET keep(f) == f \notin ignored
        kept == SelectSeq(fields.list, keep)
    IN  SortedDict([i \in 1..Len(kept) |-> Item(kept[i], Get(field_dict, kept[i]))])

\* lines 199-203: the mapping rebuilt in the order of a non-empty include list
Reordered(field_dict, fields, exclude, ignored) ==
    LET keep(f) == (~Truthy(exclude))
                   \/ (Truthy(exclude) /\ ~In(f, exclude) /\ f \notin ignored)
        kept == SelectSeq(fields.list, keep)
    IN  SortedDict([i \in 1..Len(kept) |-> Item(kept[i], Get(field_dict, kept[i]))])

fields_for_doc(doc, fields, exclude, widgets, formfield_callback) ==
    LET surviving == SelectSeq(doc.order, LAMBDA n : Survives(n, fields, exclude))
        ff(n) == FormFieldOf(doc, n, widgets, formfield_callback)
        unsupported == SelectSeq(surviving, LAMBDA n : ff(n) = NoField)
        field_list == SelectSeq(surviving, LAMBDA n : ff(n) # NoField)
        ignored == Range(unsupported)
        field_dict == SortedDict([i \in 1..Len(field_list) |->
                                     Item(field_list[i], ff(field_list[i]))])
    IN  IF formfield_callback.kind = None /\ unsupported # <<>>
        THEN [raised |-> "TypeError", what |-> Head(unsupported), dict |-> <<>>]
        ELSE IF formfield_callback.kind = "notcallable" /\ surviving # <<>>
        THEN [raised |-> "TypeError", what |-> "formfield_callback", dict |-> <<>>]
        ELSE [raised |-> None, what |-> None,
              dict |-> IF Truthy(fields)
                       THEN Reordered(field_dict, fields, exclude, ignored)
                       ELSE field_dict]

\* ----------------------------------------------------- Form Class Builder
\* DocFormOptions: the attributes read off the class's Meta
DocFormOptions(document, fields, exclude, widgets) ==
    [document |-> document, fields |-> fields, exclude |-> exclude, widgets |-> widgets]
NoDocument == [given |-> FALSE, order |-> <<>>, fields |-> <<>>]

\* DocFormMetaclass.__new__ without the check for unknown fields (lines 233-238)
DocFormMetaclass_new_unchecked(opts, declared_fields, formfield_callback) ==
    IF opts.document.given
    THEN LET got == fields_for_doc(opts.document, opts.fields, opts.exclude,
                                   opts.widgets, formfield_callback)
         IN  IF got.raised # None
             THEN [raised |-> got.raised, what |-> {got.what},
                   declared_fields |-> <<>>, base_fields |-> <<>>]
             ELSE [raised |-> None, what |-> {},
                   declared_fields |-> declared_fields,
                   base_fields |-> Update(got.dict, declared_fields)]
    ELSE [raised |-> None, what |-> {},
          declared_fields |-> declared_fields, base_fields |-> declared_fields]

\* DocFormMetaclass.__new__ for a class with DocForm among its bases, given
\* the class's Meta options, the form fields its body declares and its
\* formfield_callback attribute
DocFormMetaclass_new(opts, declared_fields, formfield_callback) ==
    IF opts.document.given
    THEN LET got == fields_for_doc(opts.document, opts.fields, opts.exclude,
                                   opts.widgets, formfield_callback)
             fields == got.dict
             none_doc_fields == {fields[i].k : i \in {j \in 1..Len(fields) :
                                                        fields[j].v = NoField}}
             missing_fields == none_doc_fields \ KeySet(declared_fields)
         IN  IF got.raised # None
             THEN [raised |-> got.raised, what |-> {got.what},
                   declared_fields |-> <<>>, base_fields |-> <<>>]
             ELSE IF missing_fields # {}
             \* line 238 names FieldError, which the module never imports: the
             \* raise statement itself fails with NameError
             THEN [raised |-> "NameError", what |-> missing_fields,
                   declared_fields |-> <<>>, base_fields |-> <<>>]
             ELSE [raised |-> None, what |-> {},
                   declared_fields |-> declared_fields,
                   base_fields |-> Update(fields, declared_fields)]
    ELSE [raised |-> None, what |-> {},
          declared_fields |-> declared_fields, base_fields |-> declared_fields]

\* ------------------------------------------------------- Form instance
\* a dict over a fixed set of possible keys: Absent marks a key the dict lacks
Absent == "absent"
DictKeys(d) == {k \in DOMAIN d : d[k] # Absent}
NON_FIELD_ERRORS == "__all__"
\* Python truth of an attribute value: None and '' are false
Nonempty(v) == v # None /\ v # ""

\* _errors: None until full_clean runs, then a dict from names to error
\* lists; a key is present exactly when its list is not empty
NoErrors(names) == [is_none |-> TRUE, dict |-> [k \in names |-> <<>>]]
\* if self._errors:
HasErrors(errors) == ~errors.is_none /\ \E k \in DOMAIN errors.dict : errors.dict[k] # <<>>

\* construct_instance writing '' to URL and email fields like to any other
construct_instance_as_is(cleaned_data, instance, fields, exclude) ==
    [instance EXCEPT !.values =
        [name \in DOMAIN instance.values |->
            IF \/ cleaned_data[name] = Absent
               \/ (fields.given /\ ~In(name, fields))
               \/ (Truthy(exclude) /\ In(name, exclude))
            THEN instance.values[name]
            ELSE cleaned_data[name]]]

\* construct_instance(form, instance, fields, exclude), form.cleaned_data given
construct_instance(cleaned_data, instance, fields, exclude) ==
    [instance EXCEPT !.values =
        [name \in DOMAIN instance.values |->
            IF \/ cleaned_data[name] = Absent
               \/ (fields.given /\ ~In(name, fields))
               \/ (Truthy(exclude) /\ In(name, exclude))
            THEN instance.values[name]
            ELSE IF instance.doc.fields[name].kind \in {"URLField", "EmailField"}
            THEN IF Nonempty(cleaned_data[name]) THEN cleaned_data[name] ELSE None
            ELSE cleaned_data[name]]]

\* doc_to_dict(instance, fields, exclude)
doc_to_dict(instance, fields, exclude) ==
    [name \in DOMAIN instance.values |->
        IF \/ (Truthy(fields) /\ ~In(name, fields))
           \/ (Truthy(exclude) /\ In(name, exclude))
        THEN Absent
        ELSE instance.values[name]]

\* object_data.update(initial)
DictUpdate(d, e) == [k \in DOMAIN d |-> IF e[k] # Absent THEN e[k] ELSE d[k]]

\* the text of one violation: v.message or the default text
FieldMessage(m, k) ==
    IF m # "" THEN <<m>> ELSE <<"MongoEngine data valid failed in %s!", k>>
NonFieldMessage(m) == IF m # "" THEN <<m>> ELSE <<"MongoEngine data valid failed">>

\* _update_errors leaving the invalid values in cleaned_data
update_errors_keeping_data(form, message_dict) ==
    [form EXCEPT
        !.errors.dict =
            [k \in DOMAIN form.errors.dict |->
                IF message_dict[k] = Absent THEN form.errors.dict[k]
                ELSE IF k # NON_FIELD_ERRORS
                THEN Append(form.errors.dict[k], FieldMessage(message_dict[k], k))
                ELSE Append(form.errors.dict[k], NonFieldMessage(message_dict[k]))]]

\* BaseDocForm._update_errors(message_dict)
update_errors(form, message_dict) ==
    [form EXCEPT
        !.errors.dict =
            [k \in DOMAIN form.errors.dict |->
                IF message_dict[k] = Absent THEN form.errors.dict[k]
                ELSE IF k # NON_FIELD_ERRORS
                THEN Append(form.errors.dict[k], FieldMessage(message_dict[k], k))
                ELSE Append(form.errors.dict[k], NonFieldMessage(message_dict[k]))],
        !.cleaned_data =
            [k \in DOMAIN form.cleaned_data |->
                IF message_dict[k] # Absent /\ k # NON_FIELD_ERRORS
                THEN Absent ELSE form.cleaned_data[k]]]

\* BaseDocForm._post_clean, the document's validate() raising
\* ValidationError with errors = message_dict (no key: it passes)
post_clean(form, opts, message_dict) ==
    LET written == [form EXCEPT !.instance =
                       construct_instance(form.cleaned_data, form.instance,
                                          opts.fields, opts.exclude)]
    IN  IF DictKeys(message_dict) = {} THEN written
        ELSE update_errors(written, message_dict)

\* what a call of save leaves: the form, and what the caller sees
Outcome(form, raised, message, persisted) ==
    [form |-> form, raised |-> raised, message |-> message, persisted |-> persisted]
UsageMessage(instance, fail_message) ==
    <<"The %s could not be %s because the data didn't validate.",
      instance.doc.name, fail_message>>
\* the document's own save(): the instance gets an identity if it has none
Persisted(instance) == [instance EXCEPT !.pk = IF @ = None THEN "id" ELSE @]

\* BaseDocForm.save without the test of self._errors
save_unchecked(form, commit) ==
    IF form.instance.kind = "EmbeddedDocument"
    THEN IF commit
         THEN Outcome(form, "ValueError",
                      <<"EmbeddedDocument doesn't support 'commit' paramiter.">>, FALSE)
         ELSE Outcome(form, None, <<>>, FALSE)
    ELSE IF commit
    THEN Outcome([form EXCEPT !.instance = Persisted(@)], None, <<>>, TRUE)
    ELSE Outcome(form, None, <<>>, FALSE)

\* BaseDocForm.save(commit); the instance is a Document or an EmbeddedDocument
save(form, commit) ==
    IF form.instance.kind = "EmbeddedDocument"
    THEN IF commit
         THEN Outcome(form, "ValueError",
                      <<"EmbeddedDocument doesn't support 'commit' paramiter.">>, FALSE)
         ELSE Outcome(form, None, <<>>, FALSE)
    ELSE LET fail_message == IF form.instance.pk = None THEN "created" ELSE "changed"
         IN  IF HasErrors(form.errors)
             THEN Outcome(form, "ValueError",
                          UsageMessage(form.instance, fail_message), FALSE)
             ELSE IF commit
             THEN Outcome([form EXCEPT !.instance = Persisted(@)], None, <<>>, TRUE)
             ELSE Outcome(form, None, <<>>, FALSE)

\* ================================================================ behaviours
Idle == "idle"

\* ---- the Field Translator applied to one descriptor
TranslateInit ==
    /\ pc = "call"
    /\ descriptor \in Descriptors
    /\ widget_arg \in {None, "Textarea"}
    /\ formfield = Idle
    /\ meta = Idle /\ attrs = Idle /\ collected = Idle /\ new_class = Idle
    /\ self = Idle /\ original = Idle /\ last = Idle /\ saves = 0 /\ constructed = Idle

Translate ==
    /\ pc = "call"
    /\ formfield' = mongofield_to_formfield(descriptor, widget_arg)
    /\ pc' = "returned"
    /\ UNCHANGED <<descriptor, widget_arg, builderVars, formVars>>

TranslateNext == Translate
SpecTranslate == TranslateInit /\ [][TranslateNext]_vars

\* ---- the Field Collector and the Form Class Builder on one class body
FieldNames == {"a", "b", "c"}
\* "x" is a name no document declares
ListNames == FieldNames \cup {"x"}
Descr(kind, req) ==
    [kind |-> kind, choices |-> FALSE, validation |-> None, regex |-> FALSE,
     required |-> req]
\* the document types drawn: three fields, declared a, b, c
Documents ==
    {[given |-> TRUE, order |-> <<"a", "b", "c">>,
      fields |-> [a |-> Descr("StringField", TRUE), b |-> Descr(kb, FALSE),
                  c |-> Descr(kc, FALSE)]] :
        kb \in {"IntField", "ListField"}, kc \in {"URLField", "ListField"}}
IncludeLists == {NoList} \cup {List(s) : s \in SeqsUpTo(ListNames, MaxFields)}
ExcludeLists == {NoList} \cup {List(s) : s \in SeqsUpTo(ListNames, MaxExclude)}
WidgetMaps == {[given |-> FALSE, map |-> <<>>], [given |-> TRUE, map |-> [a |-> "Textarea"]]}
Callbacks ==
    {NoCallback, [kind |-> "notcallable", nulls |-> {}]}
        \cup {[kind |-> "callable", nulls |-> S] : S \in SUBSET {"a", "b"}}
Declared(n) == Item(n, FormField("Declared", <<>>, None, FALSE))
DeclaredFields ==
    {<<>>, <<Declared("a")>>, <<Declared("x")>>, <<Declared("a"), Declared("x")>>,
     <<Declared("x"), Declared("a")>>}

BuilderInit ==
    /\ pc = "body"
    /\ \E d \in Documents \cup {NoDocument}, f \in IncludeLists, e \in ExcludeLists,
          w \in WidgetMaps :
          meta = DocFormOptions(d, f, e, w)
    /\ attrs \in [declared_fields : DeclaredFields, formfield_callback : Callbacks]
    /\ collected = Idle /\ new_class = Idle
    /\ descriptor = Idle /\ widget_arg = Idle /\ formfield = Idle
    /\ self = Idle /\ original = Idle /\ last = Idle /\ saves = 0 /\ constructed = Idle

\* fields_for_doc called directly with the class's options
CallFieldsForDoc ==
    /\ pc = "body"
    /\ meta.document.given
    /\ collected' = fields_for_doc(meta.document, meta.fields, meta.exclude,
                                    meta.widgets, attrs.formfield_callback)
    /\ pc' = "collected"
    /\ UNCHANGED <<meta, attrs, new_class, translatorVars, formVars>>

\* the class statement: DocFormMetaclass.__new__
NewClass ==
    /\ pc = "body"
    /\ new_class' = DocFormMetaclass_new(meta, attrs.declared_fields,
                                         attrs.formfield_callback)
    /\ pc' = "class"
    /\ UNCHANGED <<meta, attrs, collected, translatorVars, formVars>>

BuilderNext == CallFieldsForDoc \/ NewClass
SpecBuilder == BuilderInit /\ [][BuilderNext]_vars

\* ---- a form instance of one form class, from construction to save
FormNames == {"a", "b"}
ErrorKeys == FormNames \cup {NON_FIELD_ERRORS}
Values == {None, "", "v"}
\* the document types drawn: a is a string, required or not; b is optional
FormDocuments ==
    {[given |-> TRUE, name |-> "Doc", base |-> base, order |-> <<"a", "b">>,
      fields |-> [a |-> Descr("StringField", ra), b |-> Descr(kb, FALSE)]] :
        base \in {"Document", "EmbeddedDocument"}, ra \in BOOLEAN,
        kb \in {"URLField", "EmailField", "IntField"}}
FormIncludeLists == {NoList} \cup {List(s) : s \in SeqsUpTo(FormNames, MaxFormFields)}
FormExcludeLists == {NoList} \cup {List(s) : s \in SeqsUpTo({"b"}, MaxExclude)}
\* the document instances a caller may hold: an EmbeddedDocument has no pk
Instances(doc) ==
    {[doc |-> doc, kind |-> doc.base, pk |-> pk, values |-> vs] :
        pk \in IF doc.base = "Document" THEN {None, "id"} ELSE {None},
        vs \in [FormNames -> Values]}
\* opts.document(): every field at its default
NewInstance(doc) ==
    [doc |-> doc, kind |-> doc.base, pk |-> None, values |-> [n \in FormNames |-> None]]
EmptyDict == [n \in FormNames |-> Absent]
\* the initial argument: None, or a dict
Initials == {[given |-> FALSE, dict |-> EmptyDict],
             [given |-> TRUE, dict |-> [a |-> "w", b |-> Absent]]}
\* the errors dict a failing validate() carries; no key: validate() passes
MessageDicts ==
    {[a |-> Absent, b |-> Absent, __all__ |-> Absent],
     [a |-> "msg", b |-> Absent, __all__ |-> Absent],
     [a |-> Absent, b |-> "", __all__ |-> Absent],
     [a |-> Absent, b |-> Absent, __all__ |-> "msg"],
     [a |-> "", b |-> Absent, __all__ |-> ""]}

\* what the form framework's field cleaning makes of one submitted value: an
\* empty value of a text field is '', of another field None
to_python(field, value) ==
    IF Nonempty(value) THEN value
    ELSE IF field.type \in {"CharField", "URLField", "EmailField"} THEN "" ELSE None

\* the form framework's full_clean up to the hook: _errors becomes a dict,
\* every form field's submitted value is cleaned, an empty value of a
\* required field is an error and leaves no cleaned value
clean_fields(form, base_fields) ==
    LET failed(n) == /\ n \in KeySet(base_fields)
                     /\ Get(base_fields, n).required
                     /\ ~Nonempty(form.data[n])
    IN  [form EXCEPT
            !.errors = [is_none |-> FALSE,
                        dict |-> [k \in ErrorKeys |->
                                     IF k \in FormNames /\ failed(k)
                                     THEN << <<"This field is required.">> >>
                                     ELSE <<>>]],
            !.cleaned_data =
                [n \in FormNames |->
                    IF n \notin KeySet(base_fields) \/ failed(n) THEN Absent
                    ELSE to_python(Get(base_fields, n), form.data[n])]]

\* BaseDocForm.__init__(data, initial=initial, instance=instance): the form
\* it leaves, or the ValueError it raises
BaseDocForm_init(opts, data, initial, instance) ==
    IF ~instance.given /\ ~opts.document.given
    THEN [raised |-> "ValueError", form |-> Idle]
    ELSE LET inst == IF instance.given THEN instance.it ELSE NewInstance(opts.document)
             object_data == IF instance.given
                            THEN doc_to_dict(inst, opts.fields, opts.exclude)
                            ELSE EmptyDict
         IN  [raised |-> None,
              form |-> [instance |-> inst,
                        initial |-> IF initial.given
                                    THEN DictUpdate(object_data, initial.dict)
                                    ELSE object_data,
                        data |-> data,
                        errors |-> NoErrors(ErrorKeys),
                        cleaned_data |-> EmptyDict]]

FormInit ==
    /\ pc = "class"
    /\ \E doc \in FormDocuments :
          /\ original \in Instances(doc)
          /\ \/ \E f \in FormIncludeLists, e \in FormExcludeLists :
                   meta = DocFormOptions(doc, f, e, [given |-> FALSE, map |-> <<>>])
             \/ meta = DocFormOptions(NoDocument, NoList, NoList,
                                      [given |-> FALSE, map |-> <<>>])
    /\ attrs = [declared_fields |-> <<>>, formfield_callback |-> NoCallback]
    /\ new_class = DocFormMetaclass_new(meta, attrs.declared_fields,
                                        attrs.formfield_callback)
    /\ new_class.raised = None
    /\ collected = Idle
    /\ descriptor = Idle /\ widget_arg = Idle /\ formfield = Idle
    /\ self = Idle /\ last = [op |-> "class"] /\ saves = 0
    /\ constructed = [instance_given |-> FALSE, initial |-> [given |-> FALSE, dict |-> EmptyDict]]

\* the values a caller submits: those the form showed for the instance, every
\* field empty, or every field filled
Submissions(instance, opts, base_fields) ==
    {[n \in FormNames |->
         IF n \in KeySet(base_fields)
            /\ doc_to_dict(instance, opts.fields, opts.exclude)[n] # Absent
         THEN instance.values[n] ELSE None],
     [n \in FormNames |-> ""],
     [n \in FormNames |-> "v"]}

\* form = SomeDocForm(data, initial=..., instance=...); the forms followed
\* are bound ones (data is given)
Construct ==
    /\ pc = "class"
    /\ \E given \in BOOLEAN, initial \in Initials,
          data \in Submissions(original, meta, new_class.base_fields) :
          LET made == BaseDocForm_init(meta, data, initial,
                                       [given |-> given, it |-> original])
          IN  /\ last' = [op |-> "__init__", raised |-> made.raised]
              /\ constructed' = [instance_given |-> given, initial |-> initial]
              /\ IF made.raised # None
                 THEN pc' = "failed" /\ UNCHANGED <<self, original>>
                 ELSE /\ pc' = "form"
                      /\ self' = made.form
                      /\ original' = made.form.instance
    /\ UNCHANGED <<saves, meta, attrs, collected, new_class, translatorVars>>

\* is_valid(): full_clean cleans the fields ...
CleanFields ==
    /\ pc = "form"
    /\ self.errors.is_none
    /\ self' = clean_fields(self, new_class.base_fields)
    /\ last' = [op |-> "_clean_fields"]
    /\ pc' = "cleaning"
    /\ UNCHANGED <<original, saves, constructed, builderVars, translatorVars>>

\* ... and then calls the hook
PostClean ==
    /\ pc = "cleaning"
    /\ \E message_dict \in MessageDicts :
          /\ self' = post_clean(self, meta, message_dict)
          /\ last' = [op |-> "_post_clean", raised |-> None,
                      message_dict |-> message_dict]
    /\ pc' = "cleaned"
    /\ UNCHANGED <<original, saves, constructed, builderVars, translatorVars>>

\* form.save(commit)
Save ==
    /\ pc \in {"form", "cleaned"}
    /\ saves < MaxSaves
    /\ \E commit \in BOOLEAN :
          LET out == save(self, commit)
          IN  /\ self' = out.form
              /\ last' = [op |-> "save", commit |-> commit, raised |-> out.raised,
                          message |-> out.message, persisted |-> out.persisted]
              /\ saves' = IF out.persisted THEN saves + 1 ELSE saves
    /\ UNCHANGED <<pc, original, constructed, builderVars, translatorVars>>

FormNext == Construct \/ CleanFields \/ PostClean \/ Save
SpecForm == FormInit /\ [][FormNext]_vars

\* ------------------------------------------------------------------ claims
FirstIndex(s, n) == CHOOSE i \in 1..Len(s) : s[i] = n /\ \A j \in 1..(i - 1) : s[j] # n
AllSupported(doc) == \A n \in DocNames(doc) : doc.fields[n].kind \in SupportedKinds
\* a direct call of fields_for_doc has returned a mapping
Collected == pc = "collected" /\ collected.raised = None
Passing(n) == Survives(n, meta.fields, meta.exclude)

\* C1 as stated: with supported kinds only and no override callable, the keys
\* of the mapping fields_for_doc returns are the declared names that pass the
\* include/exclude filter, in declaration order.
C1_DeclarationOrder ==
    (Collected /\ attrs.formfield_callback.kind = None /\ AllSupported(meta.document))
        => Keys(collected.dict) = SelectSeq(meta.document.order, Passing)

\* C1 amended: with supported kinds only and no override callable, the keys
\* are the declared names that pass the filter, in declaration order, when
\* the include list is absent or empty; with a non-empty include list the
\* keys are the names of that list that are not excluded (a name no field
\* declares maps to None), in the order of their first occurrence in the list.
C1_IncludeListOrder ==
    (Collected /\ attrs.formfield_callback.kind = None /\ AllSupported(meta.document))
        => LET keys == Keys(collected.dict)
               doc == meta.document
           IN  IF Truthy(meta.fields)
               THEN /\ Range(keys) = {n \in Range(meta.fields.list) :
                                         ~(Truthy(meta.exclude) /\ In(n, meta.exclude))}
                    /\ \A i, j \in 1..Len(keys) :
                          i < j => FirstIndex(meta.fields.list, keys[i])
                                       < FirstIndex(meta.fields.list, keys[j])
                    /\ \A i \in 1..Len(keys) :
                          (collected.dict[i].v = NoField) <=> (keys[i] \notin DocNames(doc))
                    /\ \A n \in DocNames(doc) : Passing(n) <=> n \in Range(keys)
               ELSE keys = SelectSeq(doc.order, Passing)

\* C1 witness: an include list naming two declared fields against the
\* declaration order has been collected
C1_Witness ==
    /\ Collected /\ attrs.formfield_callback.kind = None /\ AllSupported(meta.document)
    /\ meta.fields = List(<<"b", "a">>)
    /\ Keys(collected.dict) = <<"b", "a">>

\* C2: a name in both the include list and the exclude list is no key of the
\* mapping fields_for_doc returns, with or without an override callable.
C2_ExclusionWins ==
    Collected => \A n \in ListNames :
                    (In(n, meta.fields) /\ In(n, meta.exclude))
                        => n \notin KeySet(collected.dict)

\* C2 witness: a declared field named in both lists, an override callable
\* supplied, and a non-empty mapping returned
C2_Witness ==
    /\ Collected
    /\ In("a", meta.fields) /\ In("a", meta.exclude)
    /\ attrs.formfield_callback.kind = "callable"
    /\ collected.dict # <<>>

\* C5 as stated: a field that passes the filter and for which the override
\* callable returns None is no key of the mapping, and the class statement
\* does not fail because of it.
C5_NullOverrideOmitted ==
    (attrs.formfield_callback.kind = "callable" /\ meta.document.given)
        => \A n \in attrs.formfield_callback.nulls :
              Passing(n) =>
                 /\ Collected => n \notin KeySet(collected.dict)
                 /\ pc = "class" => ~(new_class.raised # None /\ n \in new_class.what)

\* C6 as stated: every key of base_fields of a class created with a bound
\* document type names a declared field of that type.
C6_OnlyDocumentFields ==
    (pc = "class" /\ new_class.raised = None /\ meta.document.given)
        => KeySet(new_class.base_fields) \subseteq DocNames(meta.document)

\* C6 amended: every key of base_fields of a class created with a bound
\* document type names a declared field of that type or a form field the
\* class body declares explicitly.
C6_DocumentOrDeclaredFields ==
    (pc = "class" /\ new_class.raised = None /\ meta.document.given)
        => KeySet(new_class.base_fields)
              \subseteq (DocNames(meta.document) \cup KeySet(attrs.declared_fields))

\* C6 witness: a class created whose base_fields hold derived fields and a
\* declared field the document does not have
C6_Witness ==
    /\ pc = "class" /\ new_class.raised = None /\ meta.document.given
    /\ "x" \in KeySet(new_class.base_fields)
    /\ "b" \in KeySet(new_class.base_fields)

\* C8 as stated: a form field returned for a descriptor that carries a
\* callable validation has that callable among its validators.
C8_ValidationCarried ==
    (pc = "returned" /\ formfield # NoField /\ descriptor.validation = "callable")
        => "validation" \in Range(formfield.validators)

\* a form has been constructed on a document instance the caller passed
FromInstance == pc \in {"form", "cleaning", "cleaned"} /\ constructed.instance_given
BaseNames == KeySet(new_class.base_fields)

\* C3 as stated: save on a form with a recorded error raises the usage error
\* naming 'created' (no identity) or 'changed', whatever the kind of the
\* instance and the commit flag, and does not call the document's save.
C3_ErrorsBlockSave ==
    (pc = "cleaned" /\ last.op = "save" /\ HasErrors(self.errors))
        => /\ last.raised = "ValueError"
           /\ last.message = UsageMessage(self.instance,
                                IF self.instance.pk = None THEN "created" ELSE "changed")
           /\ ~last.persisted

\* C3 amended: the same, for a form bound to an independently persisted
\* document instance (a Document); bound to an EmbeddedDocument, save with
\* recorded errors returns the instance when commit is false and raises the
\* embedded-commit usage error when it is true.
C3_ErrorsBlockDocumentSave ==
    (pc = "cleaned" /\ last.op = "save" /\ HasErrors(self.errors))
        => /\ ~last.persisted
           /\ IF self.instance.kind = "Document"
              THEN /\ last.raised = "ValueError"
                   /\ last.message =
                         UsageMessage(self.instance,
                            IF self.instance.pk = None THEN "created" ELSE "changed")
              ELSE IF last.commit
              THEN /\ last.raised = "ValueError"
                   /\ last.message =
                         <<"EmbeddedDocument doesn't support 'commit' paramiter.">>
              ELSE last.raised = None

\* C3 witness: save(commit=True) on a form with errors bound to a Document
\* that has an identity raised the 'changed' usage error
C3_Witness ==
    /\ pc = "cleaned" /\ last.op = "save" /\ HasErrors(self.errors)
    /\ self.instance.kind = "Document" /\ self.instance.pk = "id"
    /\ last.commit /\ last.raised = "ValueError" /\ last.message[3] = "changed"

\* save(commit=False) ended a round trip: the form was constructed from an
\* instance with no initial argument, the values submitted are the values the
\* form read off the instance, and cleaning and the hook have run
RoundTrip ==
    /\ pc = "cleaned" /\ last.op = "save" /\ ~last.commit
    /\ constructed.instance_given /\ ~constructed.initial.given
    /\ \A n \in BaseNames : self.initial[n] = original.values[n]
                              /\ self.data[n] = self.initial[n]

C7_InitialKeysAreFilteredNames ==
    (pc = "form" /\ last.op = "__init__" /\ constructed.instance_given
        /\ meta.document.given)
        => \A n \in FormNames :
              self.initial[n] =
                 IF constructed.initial.given /\ constructed.initial.dict[n] # Absent
                 THEN constructed.initial.dict[n]
                 ELSE IF Survives(n, meta.fields, meta.exclude)
                 THEN original.values[n] ELSE Absent

\* C9: the hook raises nothing; a violation of a field is appended to the
\* field's errors and the field leaves cleaned_data, a violation without a
\* field is appended to the non-field errors, and the cleaned values and
\* errors of the other fields stay as they were.
C9_PostCleanRecordsViolations ==
    [][(pc = "cleaning" /\ pc' = "cleaned")
        => LET md == last'.message_dict
           IN  /\ last'.raised = None
               /\ \A k \in FormNames :
                     IF md[k] # Absent
                     THEN /\ self'.errors.dict[k] =
                                Append(self.errors.dict[k], FieldMessage(md[k], k))
                          /\ self'.cleaned_data[k] = Absent
                     ELSE /\ self'.errors.dict[k] = self.errors.dict[k]
                          /\ self'.cleaned_data[k] = self.cleaned_data[k]
               /\ self'.errors.dict[NON_FIELD_ERRORS] =
                     IF md[NON_FIELD_ERRORS] # Absent
                     THEN Append(self.errors.dict[NON_FIELD_ERRORS],
                                 NonFieldMessage(md[NON_FIELD_ERRORS]))
                     ELSE self.errors.dict[NON_FIELD_ERRORS]]_vars

\* C9 witness: validate() failed on field a, which had a cleaned value, and
\* with a violation of no field; a is gone from cleaned_data, b is still there
C9_Witness ==
    /\ pc = "cleaned" /\ last.op = "_post_clean"
    /\ last.message_dict["a"] # Absent /\ last.message_dict[NON_FIELD_ERRORS] # Absent
    /\ self.data["a"] = "v" /\ "a" \in BaseNames
    /\ self.cleaned_data["a"] = Absent
    /\ self.cleaned_data["b"] # Absent
    /\ self.errors.dict["a"] # <<>> /\ self.errors.dict[NON_FIELD_ERRORS] # <<>>

\* C10 as stated: the document's own save() is called only on a form whose
\* validation (field cleaning and the hook) has run and recorded no error.
C10_PersistsOnlyValidated ==
    saves > 0 => (pc = "cleaned" /\ ~HasErrors(self.errors))

====
